---- MODULE Spec2Model ----
(***************************************************************************)
(* Model of spikeextractors/extractors/nwbextractors/nwbextractors.py:     *)
(* the dynamic-table property helpers, NwbRecordingExtractor and           *)
(* NwbSortingExtractor (import = __init__, export = write_recording /      *)
(* write_sorting), against a persisted store.                              *)
(*                                                                         *)
(* Values.  A table cell is a string ("nan" is numpy's nan), a number or a *)
(* sequence; one column holds cells of one kind.  A time in seconds is the *)
(* exact fraction <<frames, samples per second>>.                          *)
(***************************************************************************)
EXTENDS Integers, Sequences, FiniteSets, TLC

VARIABLES
    table,      \* PropertySync: the dynamic table under set/get property
    call,       \* PropertySync: the last set_dynamic_table_property call
    store,      \* the persisted store (the .nwb file at save_path)
    handle,     \* number of open NWBHDF5IO handles on the store
    pc,         \* the operation in progress, "idle" between operations
    opens,      \* how often the operation in progress has opened the store
    recording,  \* the source RecordingExtractor handed to write_recording
    sorting,    \* the source SortingExtractor handed to write_sorting
    rx,         \* the NwbRecordingExtractor built by the last import
    sx,         \* the NwbSortingExtractor built by the last import
    last,       \* the last finished operation: name, outcome, what it read
    hist        \* bookkeeping of what has been exported so far

vars == <<table, call, store, handle, pc, opens, recording, sorting, rx, sx, last, hist>>

-----------------------------------------------------------------------------
(* Bounds of the model.                                                    *)

\* Row ids of the PropertySync tables are drawn from 0 .. MaxRowId.
MaxRowId == 2
\* set_dynamic_table_property is called with at most MaxArgLen row ids/values.
MaxArgLen == 2

\* Number of import/export operations in one behaviour.
MaxOps == 3
\* Number of add_epoch calls on the source recording in one behaviour.
MaxEpochEdits == 3
\* Number of channels of a source recording.
MaxChannels == 2
\* Number of units of a source sorting.
MaxUnits == 2
\* Number of times the caller turns to another recording.
MaxSwaps == 1

-----------------------------------------------------------------------------
(* Sequences and python list helpers.                                      *)

Range(s) == {s[i] : i \in 1..Len(s)}

\* Sequences over S of length 0..n.
SeqUpTo(S, n) == UNION {[1..k -> S] : k \in 0..n}

Distinct(s) == \A i, j \in 1..Len(s) : i # j => s[i] # s[j]

Min(a, b) == IF a <= b THEN a ELSE b

\* list.index(x): the first position holding x (1-based here).
ListIndex(s, x) == CHOOSE i \in 1..Len(s) : s[i] = x /\ \A j \in 1..(i-1) : s[j] # x

\* [v] * n
Repeat(v, n) == [i \in 1..n |-> v]

-----------------------------------------------------------------------------
(* RowTable: ids is the row-id sequence, colnames the column names in the  *)
(* order the columns were added, cols maps a column name to [data, index]; *)
(* index is <<>> for a dense column (pynwb keeps the '<name>_index'        *)
(* VectorIndex only for a ragged one, flagged by ragged).                  *)

NaN == "nan"

\* The two ValueErrors of set_dynamic_table_property differ by their message.
UnknownRowError == "ValueError: 'ids' contains values outside the range of existing ids"
ShapeMismatchError == "ValueError: 'ids' and 'values' should be lists of same size"
NotImplementedError == "NotImplementedError"
NoError == "none"

\* index=False, the default of the `index` argument.
IndexFalse == [is_false |-> TRUE, data |-> <<>>]
IndexList(idx) == [is_false |-> FALSE, data |-> idx]

HasColumn(t, name) == name \in DOMAIN t.cols

DenseColumn(data) == [data |-> data, index |-> <<>>, ragged |-> FALSE]
RaggedColumn(data, idx) == [data |-> data, index |-> idx, ragged |-> TRUE]

\* DynamicTable.add_column(name, data, index)
add_column(t, name, col) ==
    [t EXCEPT !.cols = (name :> col) @@ t.cols, !.colnames = Append(t.colnames, name)]

\* for (row_id, value) in zip(row_ids, values): data[ids.index(row_id)] = value
RECURSIVE AssignRows(_, _, _, _)
AssignRows(data, ids, row_ids, values) ==
    IF row_ids = <<>> \/ values = <<>> THEN data
    ELSE AssignRows([data EXCEPT ![ListIndex(ids, Head(row_ids))] = Head(values)],
                    ids, Tail(row_ids), Tail(values))

\* Mutant of DenseUpdate: rebuilds the column from the default value.
DenseUpdateRebuild(t, row_ids, property_name, values, default_value) ==
    [t EXCEPT !.cols[property_name].data =
        AssignRows(Repeat(default_value, Len(t.ids)), t.ids, row_ids, values)]

\* The existing-column branch of dense mode.
DenseUpdate(t, row_ids, property_name, values, default_value) ==
    [t EXCEPT !.cols[property_name].data =
        AssignRows(t.cols[property_name].data, t.ids, row_ids, values)]

\* Mutant of DenseCreate: sizes the new column to the rows being set.
DenseCreateShort(t, row_ids, property_name, values, default_value) ==
    add_column(t, property_name, DenseColumn(values))

\* The new-column branch of dense mode.
DenseCreate(t, row_ids, property_name, values, default_value) ==
    add_column(t, property_name,
        DenseColumn(AssignRows(Repeat(default_value, Len(t.ids)), t.ids, row_ids, values)))

\* The checks run before any branch is taken; NoError when all pass.
\* (The isinstance checks are met by construction: ids are integers, names strings.)
\* Mutant of SetPropertyCheck: the size check is skipped.
SetPropertyCheckNoSize(t, row_ids, values, index) ==
    IF \E i \in 1..Len(row_ids) : row_ids[i] \notin Range(t.ids) THEN UnknownRowError
    ELSE NoError

SetPropertyCheck(t, row_ids, values, index) ==
    IF \E i \in 1..Len(row_ids) : row_ids[i] \notin Range(t.ids) THEN UnknownRowError
    ELSE IF Len(row_ids) # Len(values) /\ index.is_false THEN ShapeMismatchError
    ELSE NoError

\* set_dynamic_table_property: the table after the call and the error raised.
\* Mutant of IndexedUpdate: the existing column is replaced by the payload.
IndexedUpdateOverwrite(t, property_name, values, index) ==
    [table |-> [t EXCEPT !.cols[property_name] = RaggedColumn(values, index.data)],
     err |-> NoError]

\* index given and property_name in dynamic_table: raise NotImplementedError.
IndexedUpdate(t, property_name, values, index) == [table |-> t, err |-> NotImplementedError]

\* index given and the column absent: add_column(data=values, index=index).
IndexedCreate(t, property_name, values, index) ==
    [table |-> add_column(t, property_name, RaggedColumn(values, index.data)), err |-> NoError]

set_dynamic_table_property(t, row_ids, property_name, values, index, default_value) ==
    LET err == SetPropertyCheck(t, row_ids, values, index) IN
    IF err # NoError THEN [table |-> t, err |-> err]
    ELSE IF index.is_false THEN
        IF HasColumn(t, property_name)
        THEN [table |-> DenseUpdate(t, row_ids, property_name, values, default_value),
              err |-> NoError]
        ELSE [table |-> DenseCreate(t, row_ids, property_name, values, default_value),
              err |-> NoError]
    ELSE
        IF HasColumn(t, property_name)
        THEN IndexedUpdate(t, property_name, values, index)
        ELSE IndexedCreate(t, property_name, values, index)

\* get_dynamic_table_property with row_ids given.
get_dynamic_table_property(t, row_ids, property_name) ==
    [k \in 1..Len(row_ids) |-> t.cols[property_name].data[ListIndex(t.ids, row_ids[k])]]

-----------------------------------------------------------------------------
(* Numbers.  A float is the exact fraction <<numerator, denominator>> in   *)
(* lowest terms with a positive denominator.                               *)

RECURSIVE GCD(_, _)
GCD(a, b) == IF b = 0 THEN a ELSE GCD(b, a % b)

Abs(n) == IF n < 0 THEN -n ELSE n

Rat(n, d) == LET g == GCD(Abs(n), d) IN <<n \div g, d \div g>>
Float(n) == <<n, 1>>
RatTimes(a, b) == Rat(a[1] * b[1], a[2] * b[2])
RatLess(a, b) == a[1] * b[2] < b[1] * a[2]

\* numpy.round of a fraction num/den with num >= 0: half goes to the even integer.
RoundHalfEven(num, den) ==
    LET q == num \div den
        r == num % den
    IN  IF 2 * r < den THEN q
        ELSE IF 2 * r > den THEN q + 1
        ELSE IF q % 2 = 0 THEN q ELSE q + 1

\* str(n) and int(s) on the small integers that name electrode groups.
Digits == <<"0", "1", "2", "3", "4", "5", "6", "7", "8", "9">>
str(n) == Digits[n + 1]
int(s) == (CHOOSE i \in 1..Len(Digits) : Digits[i] = s) - 1

\* The set S of integers as an ascending list (numpy.unique(...).tolist()).
RECURSIVE SortedList(_)
SortedList(S) ==
    IF S = {} THEN <<>>
    ELSE LET m == CHOOSE x \in S : \A y \in S : x <= y IN <<m>> \o SortedList(S \ {m})

-----------------------------------------------------------------------------
(* The source RecordingExtractor (spikeextractors.RecordingExtractor, the  *)
(* base class): channel_ids, a property dict per channel, the sampling     *)
(* frequency and the epochs, a list of [name, start_frame, end_frame] with *)
(* distinct names in insertion order (the _epochs dict).                   *)

get_channel_ids(r) == r.channel_ids
get_num_channels(r) == Len(r.channel_ids)
get_sampling_frequency(r) == r.sampling_frequency
get_channel_property_names(r, ch) == DOMAIN r.properties[ch]
get_channel_property(r, ch, name) == r.properties[ch][name]

\* The property names every channel has.
get_shared_channel_property_names(r) ==
    {n \in UNION {DOMAIN r.properties[ch] : ch \in Range(r.channel_ids)} :
        \A ch \in Range(r.channel_ids) : n \in DOMAIN r.properties[ch]}

get_channel_groups(r, channel_ids) ==
    [i \in 1..Len(channel_ids) |-> r.properties[channel_ids[i]]["group"]]

set_channel_groups(r, channel_ids, groups) ==
    [r EXCEPT !.properties =
        [ch \in DOMAIN r.properties |->
            IF ch \in Range(channel_ids)
            THEN ("group" :> groups[ListIndex(channel_ids, ch)]) @@ r.properties[ch]
            ELSE r.properties[ch]]]

get_channel_gains(r, ch) == r.properties[ch]["gain"]

\* time = frame / samplingFrequency
rec_frame_to_time(r, frame) == Rat(frame, r.sampling_frequency)

\* frame = round(time * samplingFrequency)
rec_time_to_frame(fs, time) == RoundHalfEven(time[1] * fs, time[2])

-----------------------------------------------------------------------------
(* The NWB file: devices, electrode groups (name and device), the          *)
(* electrodes table, the acquisition (a list of series), the epochs table  *)
(* (three parallel columns) and the units table.  A table or the epochs    *)
(* that the file does not have (None) carries is_none.                     *)

NoneTable == [is_none |-> TRUE, ids |-> <<>>, colnames |-> <<>>, cols |-> <<>>]
NoneEpochs == [is_none |-> TRUE, start_time |-> <<>>, stop_time |-> <<>>, tags |-> <<>>]

\* NWBFile(**kwargs)
NewNWBFile ==
    [devices |-> <<>>, electrode_groups |-> <<>>, electrodes |-> NoneTable,
     acquisition |-> <<>>, epochs |-> NoneEpochs, units |-> NoneTable]

\* The store before any export: os.path.exists(save_path) is false.
NoStore == [exists |-> FALSE, nwbfile |-> NewNWBFile]

GroupNames(nwb) == [i \in 1..Len(nwb.electrode_groups) |-> nwb.electrode_groups[i].name]

\* The columns every pynwb electrodes table has.
ElectrodeColnames == <<"x", "y", "z", "imp", "location", "filtering", "group", "group_name">>
ElectrodeColumns == Range(ElectrodeColnames)

\* nwbfile.add_electrode_column(name, description) when the table or the
\* column is missing; the table is created with its standard columns.
add_electrode_column(t, name) ==
    LET base == IF t.is_none
                THEN [is_none |-> FALSE, ids |-> <<>>, colnames |-> ElectrodeColnames,
                      cols |-> [c \in ElectrodeColumns |-> DenseColumn(<<>>)]]
                ELSE t
    IN  IF HasColumn(base, name) THEN base
        ELSE add_column(base, name, DenseColumn(Repeat(NaN, Len(base.ids))))

\* nwbfile.add_electrode(id=..., **row): a row must bring a value for every
\* column of the table and no other (hdmf's add_row raises ValueError).
RowMismatchError == "ValueError: row data keys don't match available columns"

add_electrode(t, id, row) ==
    IF DOMAIN row # DOMAIN t.cols THEN [table |-> t, err |-> RowMismatchError]
    ELSE [table |-> [t EXCEPT !.ids = Append(t.ids, id),
                              !.cols = [c \in DOMAIN t.cols |->
                                  [t.cols[c] EXCEPT !.data = Append(t.cols[c].data, row[c])]]],
          err |-> NoError]

-----------------------------------------------------------------------------
(* NwbRecordingExtractor.write_recording, step by step.                    *)

\* Device: the one the file has, else a new 'Device'.
EnsureDevice(nwb) ==
    IF nwb.devices # <<>> THEN nwb ELSE [nwb EXCEPT !.devices = <<"Device">>]

HasSharedGroup(r) == "group" \in get_shared_channel_property_names(r)

\* The source after the group check: without a shared 'group' property every
\* channel is put in group 0.
WithChannelGroups(r) ==
    IF HasSharedGroup(r) THEN r
    ELSE set_channel_groups(r, get_channel_ids(r), Repeat(0, Len(get_channel_ids(r))))

\* el_groups_names, each already passed through str().
el_groups_names(r) ==
    IF HasSharedGroup(r)
    THEN LET u == SortedList(Range(get_channel_groups(r, get_channel_ids(r))))
         IN  [i \in 1..Len(u) |-> str(u[i])]
    ELSE <<"0">>

NewElectrodeGroup(name, device) == [name |-> name, device |-> device]

\* Mutant of EnsureElectrodeGroup: the group is created without looking.
EnsureElectrodeGroupAlways(nwb, grp_name) ==
    [nwb EXCEPT !.electrode_groups = Append(@, NewElectrodeGroup(grp_name, nwb.devices[1]))]

\* if str(grp_name) not in nwbfile.electrode_groups: create_electrode_group(...)
EnsureElectrodeGroup(nwb, grp_name) ==
    IF grp_name \in Range(GroupNames(nwb)) THEN nwb
    ELSE [nwb EXCEPT !.electrode_groups = Append(@, NewElectrodeGroup(grp_name, nwb.devices[1]))]

RECURSIVE EnsureElectrodeGroups(_, _)
EnsureElectrodeGroups(nwb, names) ==
    IF names = <<>> THEN nwb
    ELSE EnsureElectrodeGroups(EnsureElectrodeGroup(nwb, Head(names)), Tail(names))

\* nwbfile.electrode_groups[name]
electrode_group(nwb, name) ==
    nwb.electrode_groups[ListIndex(GroupNames(nwb), name)]

\* while len(location) < 2: location = np.append(location, [0])
PadLocation(location) ==
    IF Len(location) >= 2 THEN location
    ELSE location \o [i \in 1..(2 - Len(location)) |-> Float(0)]

\* The row add_electrode gets for channel m.
ElectrodeRow(nwb, r, m) ==
    LET location == PadLocation(get_channel_property(r, m, "location"))
        grp == electrode_group(nwb, str(get_channel_groups(r, <<m>>)[1]))
    IN  [c \in ElectrodeColumns \cup {"rel_x", "rel_y"} |->
            CASE c \in {"x", "y", "z"} -> NaN
              [] c = "rel_x" -> location[1]
              [] c = "rel_y" -> location[2]
              [] c = "imp" -> "-1.0"
              [] c = "location" -> "unknown"
              [] c = "filtering" -> "none"
              [] c = "group" -> grp
              [] c = "group_name" -> grp.name]

\* Mutant of NeedsElectrode: every channel is inserted.
NeedsElectrodeAlways(m, nwb_elec_ids) == TRUE

\* if m not in nwb_elec_ids
NeedsElectrode(m, nwb_elec_ids) == m \notin Range(nwb_elec_ids)

\* for m in channel_ids: ... nwbfile.add_electrode(...); stops at the first error.
RECURSIVE AddElectrodes(_, _, _, _, _)
AddElectrodes(t, nwb, r, channel_ids, nwb_elec_ids) ==
    IF channel_ids = <<>> THEN [table |-> t, err |-> NoError]
    ELSE IF ~NeedsElectrode(Head(channel_ids), nwb_elec_ids)
    THEN AddElectrodes(t, nwb, r, Tail(channel_ids), nwb_elec_ids)
    ELSE LET a == add_electrode(t, Head(channel_ids), ElectrodeRow(nwb, r, Head(channel_ids)))
         IN  IF a.err # NoError THEN a
             ELSE AddElectrodes(a.table, nwb, r, Tail(channel_ids), nwb_elec_ids)

\* The order in which a channel's property names are visited.
PropertyOrder == <<"location", "group", "gain", "brain_area", "quality">>

\* Mutant of PropertyColumn: brain_area is written under its own name.
PropertyColumnPlain(pr) == <<pr>>

\* Mutant of PropertyColumn: gain is a property like any other.
PropertyColumnGain(pr) ==
    CASE pr = "location" -> <<"rel_x", "rel_y">>
      [] pr = "group" -> <<>>
      [] pr = "brain_area" -> <<"location">>
      [] OTHER -> <<pr>>

\* The electrodes columns property pr is written to; none for group and gain.
PropertyColumn(pr) ==
    CASE pr = "location" -> <<"rel_x", "rel_y">>
      [] pr \in {"group", "gain"} -> <<>>
      [] pr = "brain_area" -> <<"location">>
      [] OTHER -> <<pr>>

\* The set_dynamic_table_property calls of channel ch for property pr:
\* zip(['rel_x', 'rel_y'], val) for 'location', [val] otherwise.
PropertyWrite(r, ch, pr) ==
    LET val == get_channel_property(r, ch, pr)
        cols == PropertyColumn(pr)
    IN  IF pr = "location"
        THEN [i \in 1..Min(Len(cols), Len(val)) |->
                [row_id |-> ch, property_name |-> cols[i], value |-> val[i]]]
        ELSE [i \in 1..Len(cols) |-> [row_id |-> ch, property_name |-> cols[i], value |-> val]]

RECURSIVE ChannelWrites(_, _, _)
ChannelWrites(r, ch, order) ==
    IF order = <<>> THEN <<>>
    ELSE (IF Head(order) \in get_channel_property_names(r, ch)
          THEN PropertyWrite(r, ch, Head(order)) ELSE <<>>)
         \o ChannelWrites(r, ch, Tail(order))

RECURSIVE PropertyWrites(_, _)
PropertyWrites(r, channel_ids) ==
    IF channel_ids = <<>> THEN <<>>
    ELSE ChannelWrites(r, Head(channel_ids), PropertyOrder) \o PropertyWrites(r, Tail(channel_ids))

\* The calls in order, stopping at the first that raises.
RECURSIVE ApplyWrites(_, _)
ApplyWrites(t, writes) ==
    IF writes = <<>> THEN [table |-> t, err |-> NoError]
    ELSE LET w == Head(writes)
             s == set_dynamic_table_property(t, <<w.row_id>>, w.property_name, <<w.value>>,
                                             IndexFalse, NaN)
         IN  IF s.err # NoError THEN s ELSE ApplyWrites(s.table, Tail(writes))

\* gains: get_channel_gains for a channel with a 'gain' property, else 1.
ExportGains(r) ==
    [i \in 1..Len(r.channel_ids) |->
        IF "gain" \in get_channel_property_names(r, r.channel_ids[i])
        THEN get_channel_gains(r, r.channel_ids[i]) ELSE Float(1)]

MicroToUnit == <<1, 1000000>>
UnitToMicro == <<1000000, 1>>

NoChannelConversion == [is_none |-> TRUE, data |-> <<>>]

\* Mutant of Conversions: the per-channel array is always written.
ConversionsPerChannel(gains) ==
    [conversion |-> Float(1),
     channel_conversion |->
        [is_none |-> FALSE, data |-> [i \in 1..Len(gains) |-> RatTimes(gains[i], MicroToUnit)]]]

\* scalar_conversion and channel_conversion from the gains.
Conversions(gains) ==
    IF Cardinality(Range(gains)) = 1
    THEN [conversion |-> RatTimes(gains[1], MicroToUnit),
          channel_conversion |-> NoChannelConversion]
    ELSE [conversion |-> Float(1),
          channel_conversion |->
            [is_none |-> FALSE, data |-> [i \in 1..Len(gains) |-> RatTimes(gains[i], MicroToUnit)]]]

\* The ElectricalSeries built when the acquisition has none.
NewElectricalSeries(r) ==
    LET c == Conversions(ExportGains(r)) IN
    [name |-> "ElectricalSeries",
     electrodes |-> [i \in 1..get_num_channels(r) |-> i - 1],
     starting_time |-> rec_frame_to_time(r, 0),
     rate |-> get_sampling_frequency(r),
     conversion |-> c.conversion,
     channel_conversion |-> c.channel_conversion,
     num_frames |-> r.num_frames]

EnsureSeries(nwb, r) ==
    IF nwb.acquisition # <<>> THEN nwb
    ELSE [nwb EXCEPT !.acquisition = <<NewElectricalSeries(r)>>]

\* nwbfile.add_epoch(start_time, stop_time, tags=name): one more row, tagged [name].
add_epoch(epochs, start_time, stop_time, name) ==
    [is_none |-> FALSE,
     start_time |-> Append(epochs.start_time, start_time),
     stop_time |-> Append(epochs.stop_time, stop_time),
     tags |-> Append(epochs.tags, <<name>>)]

\* Mutant of UpsertEpoch: the epoch is appended without looking for its tag.
UpsertEpochAppend(epochs, r, ep) ==
    add_epoch(epochs, rec_frame_to_time(r, ep.start_frame),
              rec_frame_to_time(r, ep.end_frame), ep.name)

\* One round of the add/update epochs loop.
UpsertEpoch(epochs, r, ep) ==
    IF epochs.is_none
    THEN add_epoch(epochs, rec_frame_to_time(r, ep.start_frame),
                   rec_frame_to_time(r, ep.end_frame), ep.name)
    ELSE IF <<ep.name>> \in Range(epochs.tags)
    THEN LET ind == ListIndex(epochs.tags, <<ep.name>>) IN
         [epochs EXCEPT !.start_time[ind] = rec_frame_to_time(r, ep.start_frame),
                        !.stop_time[ind] = rec_frame_to_time(r, ep.end_frame)]
    ELSE add_epoch(epochs, rec_frame_to_time(r, ep.start_frame),
                   rec_frame_to_time(r, ep.end_frame), ep.name)

RECURSIVE UpsertEpochs(_, _, _)
UpsertEpochs(epochs, r, eps) ==
    IF eps = <<>> THEN epochs
    ELSE UpsertEpochs(UpsertEpoch(epochs, r, Head(eps)), r, Tail(eps))

\* The body of write_recording on the file read (or made) at the top of the
\* with block: the file to write, the source (its groups may have been set),
\* and the error raised, if any.
write_recording(rec, nwbfile) ==
    LET channel_ids == get_channel_ids(rec)
        nwb1 == EnsureDevice(nwbfile)
        names == el_groups_names(rec)
        r == WithChannelGroups(rec)
        nwb2 == EnsureElectrodeGroups(nwb1, names)
        nwb_elec_ids == nwb2.electrodes.ids
        t1 == add_electrode_column(add_electrode_column(nwb2.electrodes, "rel_x"), "rel_y")
        added == AddElectrodes(t1, nwb2, r, channel_ids, nwb_elec_ids)
        written == IF added.err # NoError THEN added
                   ELSE ApplyWrites(added.table, PropertyWrites(r, channel_ids))
        nwb3 == [nwb2 EXCEPT !.electrodes = written.table]
        nwb4 == EnsureSeries(nwb3, r)
        nwb5 == [nwb4 EXCEPT !.epochs = UpsertEpochs(nwb4.epochs, r, r.epochs)]
    IN  IF written.err # NoError
        THEN [nwbfile |-> nwbfile, recording |-> r, err |-> written.err]
        ELSE [nwbfile |-> nwb5, recording |-> r, err |-> NoError]

-----------------------------------------------------------------------------
(* NwbRecordingExtractor.__init__: the import of a recording.              *)

AmbiguousSeriesError == "ValueError: More than one acquisition found. You must specify electrical_series."
NoSeriesError == "ValueError: No acquisitions found in the .nwb file."
KeyError == "KeyError"
IndexError == "IndexError"

\* electrical_series_name=None and electrical_series_name=<name>
NoName == [is_none |-> TRUE, name |-> ""]
Name(n) == [is_none |-> FALSE, name |-> n]

SeriesNames(nwb) == [i \in 1..Len(nwb.acquisition) |-> nwb.acquisition[i].name]

\* The series name the import settles on, or the error raised on the way.
ResolveSeriesName(nwb, electrical_series_name) ==
    IF ~electrical_series_name.is_none
    THEN [name |-> electrical_series_name.name, err |-> NoError]
    ELSE IF Len(SeriesNames(nwb)) > 1 THEN [name |-> "", err |-> AmbiguousSeriesError]
    ELSE IF Len(SeriesNames(nwb)) = 0 THEN [name |-> "", err |-> NoSeriesError]
    ELSE [name |-> SeriesNames(nwb)[1], err |-> NoError]

\* Mutant of ImportGains: the per-channel multipliers are ignored.
ImportGainsScalar(es, num_channels) ==
    [i \in 1..num_channels |-> RatTimes(es.conversion, UnitToMicro)]

\* gains, one per entry of channel_conversion, or per electrode row without it.
ImportGains(es, num_channels) ==
    IF ~es.channel_conversion.is_none
    THEN [i \in 1..Len(es.channel_conversion.data) |->
            RatTimes(RatTimes(es.conversion, es.channel_conversion.data[i]), UnitToMicro)]
    ELSE [i \in 1..num_channels |-> RatTimes(es.conversion, UnitToMicro)]

\* isinstance(nwbfile.electrodes[col][ind], ElectrodeGroup): the cells of the
\* 'group' column are the electrode groups.
IsElectrodeGroupColumn(col) == col = "group"

\* The property name an electrodes column is imported under.
ImportedName(col) ==
    CASE col = "group_name" -> "group"
      [] col = "location" -> "brain_area"
      [] OTHER -> col

ImportedValue(col, cell) == IF col = "group_name" THEN int(cell) ELSE cell

\* Mutant of ImportedColumns: only the columns the export writes properties to.
ImportedColumnsNarrow(t) ==
    {col \in DOMAIN t.cols : col \notin ElectrodeColumns \cup {"rel_x", "rel_y"}}
        \cup {"group_name", "location"}

\* The columns that become properties of a channel.
ImportedColumns(t) == {col \in DOMAIN t.cols : ~IsElectrodeGroupColumn(col)}

\* self._channel_properties[i] for the electrode at row ind (1-based).
ChannelProperties(t, gains, ind) ==
    LET loc == IF HasColumn(t, "rel_x")
               THEN ("location" :>
                        <<t.cols["rel_x"].data[ind],
                          IF HasColumn(t, "rel_y") THEN t.cols["rel_y"].data[ind] ELSE Float(0)>>)
               ELSE <<>>
        cols == ImportedColumns(t)
        named == [n \in {ImportedName(c) : c \in cols} |->
                    LET c == CHOOSE c \in cols : ImportedName(c) = n
                    IN  ImportedValue(c, t.cols[c].data[ind])]
    IN  named @@ loc @@ ("gain" :> gains[ind])

\* The epochs dict: keyed by the first tag of each row, a later row replacing
\* an earlier one with the same key.
ImportEpochs(epochs, fs) ==
    IF epochs.is_none THEN <<>>
    ELSE [tag \in {epochs.tags[i][1] : i \in 1..Len(epochs.tags)} |->
            LET i == CHOOSE i \in 1..Len(epochs.tags) :
                        /\ epochs.tags[i][1] = tag
                        /\ \A j \in (i+1)..Len(epochs.tags) : epochs.tags[j][1] # tag
            IN  [start_frame |-> rec_time_to_frame(fs, epochs.start_time[i]),
                 end_frame |-> rec_time_to_frame(fs, epochs.stop_time[i])]]

FailedRecordingExtractor(err) ==
    [ok |-> FALSE, err |-> err, electrical_series_name |-> "", sampling_frequency |-> 0,
     num_frames |-> 0, channel_ids |-> <<>>, channel_properties |-> <<>>, epochs |-> <<>>]

\* The extractor __init__ builds from the file, or the error it raises.
NwbRecordingExtractor(nwbfile, electrical_series_name) ==
    LET res == ResolveSeriesName(nwbfile, electrical_series_name) IN
    IF res.err # NoError THEN FailedRecordingExtractor(res.err)
    ELSE IF res.name \notin Range(SeriesNames(nwbfile)) THEN FailedRecordingExtractor(KeyError)
    ELSE
        LET es == nwbfile.acquisition[ListIndex(SeriesNames(nwbfile), res.name)]
            t == nwbfile.electrodes
            num_channels == Len(t.ids)
            gains == ImportGains(es, num_channels)
        IN  IF Len(gains) < num_channels THEN FailedRecordingExtractor(IndexError)
            ELSE [ok |-> TRUE, err |-> NoError,
                  electrical_series_name |-> res.name,
                  sampling_frequency |-> es.rate,
                  num_frames |-> es.num_frames,
                  channel_ids |-> t.ids,
                  channel_properties |->
                      [i \in Range(t.ids) |-> ChannelProperties(t, gains, ListIndex(t.ids, i))],
                  epochs |-> ImportEpochs(nwbfile.epochs, es.rate)]

-----------------------------------------------------------------------------
(* The source SortingExtractor (spikeextractors.SortingExtractor, the base *)
(* class): unit_ids, the sampling frequency, a spike train (frames) per    *)
(* unit, and the _unit_properties and _unit_features dicts, each a list of *)
(* [unit, dict] entries with distinct units in insertion order.            *)

DictKeys(d) == [i \in 1..Len(d) |-> d[i].unit]

\* find_all_unit_property_names: the names used by any entry.
find_all_unit_property_names(properties_dict, features_dict) ==
    [properties_set |-> UNION {DOMAIN properties_dict[i].dict : i \in 1..Len(properties_dict)},
     features_set |-> UNION {DOMAIN features_dict[i].dict : i \in 1..Len(features_dict)}]

\* np.diff([0] + list(index)): the row lengths of a ragged column.
Diff(index) == [i \in 1..Len(index) |-> index[i] - (IF i = 1 THEN 0 ELSE index[i-1])]

\* np.cumsum(counts)
RECURSIVE CumSum(_)
CumSum(counts) ==
    IF counts = <<>> THEN <<>>
    ELSE LET front == CumSum(SubSeq(counts, 1, Len(counts) - 1))
         IN  Append(front, (IF front = <<>> THEN 0 ELSE front[Len(front)]) + counts[Len(counts)])

\* [item for sublist in vals for item in sublist]
RECURSIVE Flatten(_)
Flatten(vals) == IF vals = <<>> THEN <<>> ELSE Head(vals) \o Flatten(Tail(vals))

InvalidUnitError == "ValueError: invalid unit_id"

\* get_nspikes(units_table, unit_id), for a unit of the table.
get_nspikes(units_table, unit_id) ==
    Diff(units_table.cols["spike_times"].index)[ListIndex(units_table.ids, unit_id)]

\* data[start:end]: a slice stops at the end of the data.
Slice(data, start, end) == SubSeq(data, Min(start, Len(data)) + 1, Min(end, Len(data)))

\* table[name][ind]: the cell of row ind (1-based), a slice for a ragged column.
Cell(t, name, ind) ==
    LET c == t.cols[name] IN
    IF c.ragged
    THEN Slice(c.data, IF ind = 1 THEN 0 ELSE c.index[ind - 1], c.index[ind])
    ELSE c.data[ind]

\* nwbfile.add_unit(id=id, spike_times=spkt): a row of the ragged spike_times.
add_unit(t, id, spkt) ==
    LET col == IF t.is_none THEN RaggedColumn(<<>>, <<>>) ELSE t.cols["spike_times"] IN
    [is_none |-> FALSE,
     ids |-> Append(t.ids, id),
     colnames |-> <<"spike_times">>,
     cols |-> ("spike_times" :>
                 RaggedColumn(col.data \o spkt, Append(col.index, Len(col.data) + Len(spkt))))]

\* sorting.get_unit_spike_train(unit_id=id) / fs
SpikeTimes(sorting_, id) ==
    [k \in 1..Len(sorting_.spike_trains[id]) |->
        Rat(sorting_.spike_trains[id][k], sorting_.sampling_frequency)]

\* if nwbfile.units is None: for id in ids: nwbfile.add_unit(...)
RECURSIVE AddUnits(_, _, _)
AddUnits(t, sorting_, ids) ==
    IF ids = <<>> THEN t
    ELSE AddUnits(add_unit(t, Head(ids), SpikeTimes(sorting_, Head(ids))), sorting_, Tail(ids))

\* The entries of a dict (list of [unit, dict]) that define name.
Defining(d, name) == SelectSeq(d, LAMBDA e : name \in DOMAIN e.dict)

\* The dense-mode call for unit property pr.
SetUnitProperty(t, properties_dict, pr) ==
    LET es == Defining(properties_dict, pr)
        unit_ids == [i \in 1..Len(es) |-> es[i].unit]
        vals == [i \in 1..Len(es) |-> es[i].dict[pr]]
    IN  set_dynamic_table_property(t, unit_ids, pr, vals, IndexFalse, NaN)

\* for pr in all_properties: ..., stopping at the first call that raises.
RECURSIVE SetUnitProperties(_, _, _)
SetUnitProperties(t, properties_dict, names) ==
    IF names = {} THEN [table |-> t, err |-> NoError]
    ELSE LET pr == CHOOSE n \in names : TRUE
             r == SetUnitProperty(t, properties_dict, pr)
         IN  IF r.err # NoError THEN r
             ELSE SetUnitProperties(r.table, properties_dict, names \ {pr})

\* vals: one sequence per entry of _unit_features, in the dict's order.
FeatureVals(features_dict, ids, nspikes, ft) ==
    [i \in 1..Len(features_dict) |->
        IF ft \in DOMAIN features_dict[i].dict THEN features_dict[i].dict[ft]
        ELSE Repeat(NaN, nspikes[ListIndex(ids, features_dict[i].unit)])]

\* The indexed call for spike feature ft.
SetUnitFeature(t, features_dict, ids, nspikes, ft) ==
    LET flatten_vals == Flatten(FeatureVals(features_dict, ids, nspikes, ft))
        spikes_index == CumSum(nspikes)
    IN  set_dynamic_table_property(t, ids, ft, flatten_vals, IndexList(spikes_index), NaN)

RECURSIVE SetUnitFeatures(_, _, _, _, _)
SetUnitFeatures(t, features_dict, ids, nspikes, names) ==
    IF names = {} THEN [table |-> t, err |-> NoError]
    ELSE LET ft == CHOOSE n \in names : TRUE
             r == SetUnitFeature(t, features_dict, ids, nspikes, ft)
         IN  IF r.err # NoError THEN r
             ELSE SetUnitFeatures(r.table, features_dict, ids, nspikes, names \ {ft})

\* The body of write_sorting on the file read (or made) at the top of the with
\* block: the file to write and the error raised, if any.
write_sorting(sorting_, nwbfile) ==
    LET ids == sorting_.unit_ids
        all == find_all_unit_property_names(sorting_.unit_properties, sorting_.unit_features)
        units1 == IF nwbfile.units.is_none THEN AddUnits(nwbfile.units, sorting_, ids)
                  ELSE nwbfile.units
        props == SetUnitProperties(units1, sorting_.unit_properties, all.properties_set)
        known == \A i \in 1..Len(ids) : ids[i] \in Range(props.table.ids)
        nspikes == [i \in 1..Len(ids) |-> get_nspikes(props.table, ids[i])]
        feats == IF props.err # NoError THEN props
                 ELSE IF ~known THEN [table |-> props.table, err |-> InvalidUnitError]
                 ELSE SetUnitFeatures(props.table, sorting_.unit_features, ids, nspikes,
                                      all.features_set)
    IN  IF feats.err # NoError THEN [nwbfile |-> nwbfile, err |-> feats.err]
        ELSE [nwbfile |-> [nwbfile EXCEPT !.units = feats.table], err |-> NoError]

-----------------------------------------------------------------------------
(* NwbSortingExtractor.__init__: the import of a sorting.                  *)

NoUnitsError == "AttributeError: 'NoneType' object has no attribute 'id'"
AmbiguousSeriesException == "Exception: More than one acquisition found. You must specify electrical_series."
NoSeriesException == "Exception: No acquisitions found in the .nwb file."
NoFrequency == 0

\* The sampling frequency: the argument when given (electrical_series is
\* not passed), else the rate of the only series.
ResolveSamplingFrequency(nwb, sampling_frequency) ==
    IF sampling_frequency # NoFrequency THEN [fs |-> sampling_frequency, err |-> NoError]
    ELSE IF Len(nwb.acquisition) > 1 THEN [fs |-> NoFrequency, err |-> AmbiguousSeriesException]
    ELSE IF Len(nwb.acquisition) = 0 THEN [fs |-> NoFrequency, err |-> NoSeriesException]
    ELSE [fs |-> nwb.acquisition[1].rate, err |-> NoError]

\* item + '_index' in all_names: the column has a VectorIndex.
IsFeature(t, item) == t.cols[item].ragged

\* The columns of the given kind other than spike_times, in colnames order.
ItemColumns(t, feature) ==
    SelectSeq(t.colnames, LAMBDA item : item # "spike_times" /\ IsFeature(t, item) = feature)

\* dict.update({id: {item: value}}): the unit's dict is replaced.
UpdateUnit(d, t, item, ind) == (item :> Cell(t, item, ind))

\* The unit's dict after the loop has visited the columns in items.
RECURSIVE UnitDict(_, _, _, _)
UnitDict(d, t, items, ind) ==
    IF items = <<>> THEN d
    ELSE UnitDict(UpdateUnit(d, t, Head(items), ind), t, Tail(items), ind)

\* self._unit_properties / self._unit_features after the loop: an entry per
\* unit once a column of the kind has been visited.
UnitDicts(t, feature) ==
    IF ItemColumns(t, feature) = <<>> THEN <<>>
    ELSE [id \in Range(t.ids) |-> UnitDict(<<>>, t, ItemColumns(t, feature), ListIndex(t.ids, id))]

\* NwbSortingExtractor.time_to_frame / frame_to_time
time_to_frame(fs, time) == RoundHalfEven(time[1] * fs, time[2])
frame_to_time(fs, frame) == Rat(frame, fs)

SortingEpochs(epochs, fs) ==
    IF epochs.is_none THEN <<>>
    ELSE [tag \in {epochs.tags[i][1] : i \in 1..Len(epochs.tags)} |->
            LET i == CHOOSE i \in 1..Len(epochs.tags) :
                        /\ epochs.tags[i][1] = tag
                        /\ \A j \in (i+1)..Len(epochs.tags) : epochs.tags[j][1] # tag
            IN  [start_frame |-> time_to_frame(fs, epochs.start_time[i]),
                 end_frame |-> time_to_frame(fs, epochs.stop_time[i])]]

FailedSortingExtractor(err) ==
    [ok |-> FALSE, err |-> err, sampling_frequency |-> NoFrequency,
     unit_properties |-> <<>>, unit_features |-> <<>>, epochs |-> <<>>]

\* The extractor __init__ builds from the file, or the error it raises.
NwbSortingExtractor(nwbfile, sampling_frequency) ==
    LET res == ResolveSamplingFrequency(nwbfile, sampling_frequency) IN
    IF res.err # NoError THEN FailedSortingExtractor(res.err)
    ELSE IF nwbfile.units.is_none THEN FailedSortingExtractor(NoUnitsError)
    ELSE [ok |-> TRUE, err |-> NoError, sampling_frequency |-> res.fs,
          unit_properties |-> UnitDicts(nwbfile.units, FALSE),
          unit_features |-> UnitDicts(nwbfile.units, TRUE),
          epochs |-> SortingEpochs(nwbfile.epochs, res.fs)]

\* get_unit_ids: [int(i) for i in nwbfile.units.id[:]]
get_unit_ids(nwbfile) == nwbfile.units.ids

NoFrame == -1

\* The window start_frame <= frame < end_frame, None read as 0 and np.Inf.
InWindowFromStart(frame, start_frame, end_frame) ==
    /\ frame >= (IF start_frame = NoFrame THEN 0 ELSE start_frame)
    /\ (end_frame = NoFrame \/ frame < end_frame)

\* (frames > start_frame) & (frames < end_frame), None read as 0 and np.Inf.
InWindow(frame, start_frame, end_frame) ==
    /\ frame > (IF start_frame = NoFrame THEN 0 ELSE start_frame)
    /\ (end_frame = NoFrame \/ frame < end_frame)

\* get_unit_spike_train of a unit of the table.
get_unit_spike_train(nwbfile, fs, unit_id, start_frame, end_frame) ==
    LET times == Cell(nwbfile.units, "spike_times", ListIndex(nwbfile.units.ids, unit_id))
        frames == [k \in 1..Len(times) |-> time_to_frame(fs, times[k])]
    IN  SelectSeq(frames, LAMBDA f : InWindow(f, start_frame, end_frame))

-----------------------------------------------------------------------------
(* Operations on the store.  Each public operation is a with block around  *)
(* NWBHDF5IO: the Open step enters it, the Body step runs the block to its *)
(* end or to the first error and leaves it.                                *)

\* Mutant of ExitHandle: an error skips the close.
ExitHandleOnSuccess(h, failed) == IF failed THEN h ELSE h - 1

\* NWBHDF5IO.__exit__: the handle is closed however the block ends.
ExitHandle(h, failed) == h - 1

NoLast ==
    [op |-> "none", err |-> NoError, pre |-> NoStore, pre_groups |-> {},
     args |-> <<>>, result |-> <<>>]

NoHist ==
    [ops |-> 0, edits |-> 0, exports |-> 0, swaps |-> 0,
     first |-> <<>>,      \* the source handed to the export that created the store
     groups |-> {},       \* the group values of the channels exported so far
     upserts |-> <<>>]    \* the epochs upserted so far: [name, start_frame, end_frame, fs]

Open(op) ==
    /\ pc = "idle"
    /\ hist.ops < MaxOps
    /\ pc' = op
    /\ handle' = handle + 1
    /\ opens' = opens + 1
    /\ hist' = [hist EXCEPT !.ops = @ + 1]

\* Leaving the operation's with block, with what it was called with and what
\* it returns.
Close(op, err, args, result) ==
    /\ pc' = "idle"
    /\ handle' = ExitHandle(handle, err # NoError)
    /\ opens' = 0
    /\ last' = [op |-> op, err |-> err, pre |-> store, pre_groups |-> hist.groups,
                args |-> args, result |-> result]

\* write_recording: with NWBHDF5IO(save_path, mode=read_mode) as io:
ExportRecordingOpen ==
    /\ Open("write_recording")
    /\ UNCHANGED <<table, call, store, recording, sorting, rx, sx, last>>

UpsertRecord(r, ep) ==
    [name |-> ep.name, start_frame |-> ep.start_frame, end_frame |-> ep.end_frame,
     fs |-> r.sampling_frequency]

\* write_recording: the block, then io.write(nwbfile) when nothing was raised.
ExportRecordingBody ==
    /\ pc = "write_recording"
    /\ LET res == write_recording(recording,
                                  IF store.exists THEN store.nwbfile ELSE NewNWBFile)
       IN  /\ store' = IF res.err = NoError
                       THEN [exists |-> TRUE, nwbfile |-> res.nwbfile] ELSE store
           /\ recording' = res.recording
           /\ Close("write_recording", res.err, <<>>, <<>>)
           /\ hist' = IF res.err # NoError THEN hist
                      ELSE [hist EXCEPT
                              !.exports = @ + 1,
                              !.first = IF store.exists THEN @ ELSE recording,
                              !.groups = @ \cup {res.recording.properties[ch]["group"] :
                                                    ch \in Range(res.recording.channel_ids)},
                              !.upserts = @ \o [i \in 1..Len(recording.epochs) |->
                                                  UpsertRecord(recording, recording.epochs[i])]]
    /\ UNCHANGED <<table, call, sorting, rx, sx>>

\* NwbRecordingExtractor(file_path): with NWBHDF5IO(self._path, 'a') as io:
ImportRecordingOpen ==
    /\ store.exists
    /\ Open("NwbRecordingExtractor")
    /\ UNCHANGED <<table, call, store, recording, sorting, rx, sx, last>>

SeriesNameArgs == {NoName, Name("ElectricalSeries")}

\* def __init__(self, file_path, electrical_series_name='ElectricalSeries')
DefaultSeriesName == Name("ElectricalSeries")

\* The call leaves electrical_series_name out, or passes None or a name.
SeriesNameCalls ==
    {[given |-> FALSE, electrical_series_name |-> DefaultSeriesName]}
        \cup {[given |-> TRUE, electrical_series_name |-> n] : n \in SeriesNameArgs}

ImportRecordingBody ==
    /\ pc = "NwbRecordingExtractor"
    /\ \E args \in SeriesNameCalls :
        LET x == NwbRecordingExtractor(store.nwbfile, args.electrical_series_name) IN
        /\ rx' = x
        /\ Close("NwbRecordingExtractor", x.err, args, <<>>)
    /\ UNCHANGED <<table, call, store, recording, sorting, sx, hist>>

\* get_traces: with NWBHDF5IO(self._path, 'r') as io:
GetTracesOpen ==
    /\ rx.ok
    /\ Open("get_traces")
    /\ UNCHANGED <<table, call, store, recording, sorting, rx, sx, last>>

\* get_traces with the default arguments: all channels, all frames; the
\* traces are not modelled beyond their shape.
GetTracesBody ==
    /\ pc = "get_traces"
    /\ IF rx.electrical_series_name \notin Range(SeriesNames(store.nwbfile))
       THEN Close("get_traces", KeyError, <<>>, <<>>)
       ELSE LET es == store.nwbfile.acquisition[
                        ListIndex(SeriesNames(store.nwbfile), rx.electrical_series_name)]
            IN  Close("get_traces", NoError, <<>>, <<Len(rx.channel_ids), es.num_frames>>)
    /\ UNCHANGED <<table, call, store, recording, sorting, rx, sx, hist>>

\* write_sorting: with NWBHDF5IO(save_path, mode=read_mode) as io:
ExportSortingOpen ==
    /\ Open("write_sorting")
    /\ UNCHANGED <<table, call, store, recording, sorting, rx, sx, last>>

\* write_sorting: the block, then io.write(nwbfile) when nothing was raised.
ExportSortingBody ==
    /\ pc = "write_sorting"
    /\ LET res == write_sorting(sorting, IF store.exists THEN store.nwbfile ELSE NewNWBFile)
       IN  /\ store' = IF res.err = NoError
                       THEN [exists |-> TRUE, nwbfile |-> res.nwbfile] ELSE store
           /\ Close("write_sorting", res.err, <<>>, <<>>)
    /\ UNCHANGED <<table, call, recording, sorting, rx, sx, hist>>

\* NwbSortingExtractor(path): with NWBHDF5IO(self._path, 'r') as io:
ImportSortingOpen ==
    /\ store.exists
    /\ Open("NwbSortingExtractor")
    /\ UNCHANGED <<table, call, store, recording, sorting, rx, sx, last>>

\* The sampling_frequency argument: the source's, or none.
ImportSortingBody ==
    /\ pc = "NwbSortingExtractor"
    /\ \E sampling_frequency \in {NoFrequency, sorting.sampling_frequency} :
        LET x == NwbSortingExtractor(store.nwbfile, sampling_frequency) IN
        /\ sx' = x
        /\ Close("NwbSortingExtractor", x.err, [sampling_frequency |-> sampling_frequency], <<>>)
    /\ UNCHANGED <<table, call, store, recording, sorting, rx, hist>>

\* get_unit_ids: with NWBHDF5IO(self._path, 'r') as io:
GetUnitIdsOpen ==
    /\ sx.ok
    /\ Open("get_unit_ids")
    /\ UNCHANGED <<table, call, store, recording, sorting, rx, sx, last>>

GetUnitIdsBody ==
    /\ pc = "get_unit_ids"
    /\ Close("get_unit_ids", NoError, <<>>, get_unit_ids(store.nwbfile))
    /\ UNCHANGED <<table, call, store, recording, sorting, rx, sx, hist>>

\* get_unit_spike_train: with NWBHDF5IO(self._path, 'r') as io:
GetUnitSpikeTrainOpen ==
    /\ sx.ok
    /\ Open("get_unit_spike_train")
    /\ UNCHANGED <<table, call, store, recording, sorting, rx, sx, last>>

FrameArgs == {<<NoFrame, NoFrame>>, <<2, 5>>}
UnitIdArgs == 1..3
UnknownUnitError == "ValueError: unit_id is not in list"

GetUnitSpikeTrainBody ==
    /\ pc = "get_unit_spike_train"
    /\ \E unit_id \in UnitIdArgs, frames \in FrameArgs :
        LET args == [unit_id |-> unit_id, start_frame |-> frames[1], end_frame |-> frames[2]] IN
        IF unit_id \notin Range(store.nwbfile.units.ids)
        THEN Close("get_unit_spike_train", UnknownUnitError, args, <<>>)
        ELSE Close("get_unit_spike_train", NoError, args,
                   get_unit_spike_train(store.nwbfile, sx.sampling_frequency, unit_id,
                                        frames[1], frames[2]))
    /\ UNCHANGED <<table, call, store, recording, sorting, rx, sx, hist>>

-----------------------------------------------------------------------------
(* Source recordings.                                                      *)

Gains == {Float(2), Float(3)}
Groups == {0, 1}
SamplingFrequencies == {2, 4}
EpochNames == {"A", "B"}
EpochFrames == {<<0, 100>>, <<50, 150>>}

Location1 == ("location" :> <<Float(5)>>)
Location2 == ("location" :> <<Float(5), Float(7)>>)

\* The properties of one channel: a location of one or two coordinates alone,
\* two coordinates with one of gain, brain_area and quality, or one coordinate
\* with all three.
ChannelPropertySets ==
    {Location1, Location2}
        \cup {("gain" :> g) @@ Location2 : g \in Gains}
        \cup {("brain_area" :> "CA1") @@ Location2, ("quality" :> "good") @@ Location2}
        \cup {("gain" :> Float(3)) @@ ("brain_area" :> "CA3") @@ ("quality" :> "poor") @@ Location1}

\* Channel ids 0..n-1 in ascending or descending order.
ChannelIdLists ==
    UNION {{[i \in 1..n |-> i - 1], [i \in 1..n |-> n - i]} : n \in 1..MaxChannels}

\* Recordings without epochs.  The 'group' property is set on all channels or
\* on none (set_channel_groups with its default channel_ids).
SourceRecordings ==
    UNION {
        {[channel_ids |-> ids, sampling_frequency |-> 2, num_frames |-> 200, epochs |-> <<>>,
          properties |-> [ch \in Range(ids) |-> grp[ch] @@ props[ch]]] :
            props \in [Range(ids) -> ChannelPropertySets],
            grp \in {[ch \in Range(ids) |-> <<>>]}
                        \cup {[ch \in Range(ids) |-> ("group" :> g[ch])] : g \in [Range(ids) -> Groups]}}
        : ids \in ChannelIdLists}

\* RecordingExtractor.add_epoch(name, start_frame, end_frame): the _epochs
\* dict entry is set; a name already there keeps its place.
rec_add_epoch(r, name, frames) ==
    LET ep == [name |-> name, start_frame |-> frames[1], end_frame |-> frames[2]]
        names == [i \in 1..Len(r.epochs) |-> r.epochs[i].name]
    IN  IF name \in Range(names)
        THEN [r EXCEPT !.epochs[ListIndex(names, name)] = ep]
        ELSE [r EXCEPT !.epochs = Append(@, ep)]

\* RecordingExtractor.set_channel_groups(channel_ids=[ch], groups=[g]) by the
\* caller, between operations.
RegroupChannel ==
    /\ pc = "idle"
    /\ hist.swaps < MaxSwaps
    /\ \E ch \in Range(recording.channel_ids), g \in Groups :
        /\ "group" \in DOMAIN recording.properties[ch] => recording.properties[ch]["group"] # g
        /\ recording' = set_channel_groups(recording, <<ch>>, <<g>>)
    /\ hist' = [hist EXCEPT !.swaps = @ + 1]
    /\ UNCHANGED <<table, call, store, handle, pc, opens, sorting, rx, sx, last>>

AddEpoch ==
    /\ pc = "idle"
    /\ hist.edits < MaxEpochEdits
    /\ \E name \in EpochNames, frames \in EpochFrames :
        recording' = rec_add_epoch(recording, name, frames)
    /\ hist' = [hist EXCEPT !.edits = @ + 1]
    /\ UNCHANGED <<table, call, store, handle, pc, opens, sorting, rx, sx, last>>

-----------------------------------------------------------------------------
(* Source sortings.                                                        *)

\* The value of a spike feature of unit u at its k-th spike.
SpikeLabels ==
    <<<<"u1s1", "u1s2", "u1s3">>, <<"u2s1", "u2s2", "u2s3">>, <<"u3s1", "u3s2", "u3s3">>>>

NoDict == [has |-> FALSE, dict |-> <<>>]
Dict(d) == [has |-> TRUE, dict |-> d]

\* What a unit brings: its spike train (frames), its entry of _unit_properties
\* and the feature names of its entry of _unit_features, if it has entries.
UnitProfiles ==
    {[train |-> <<0, 3>>, props |-> NoDict, features |-> NoDict],
     [train |-> <<0, 3>>, props |-> Dict(("snr" :> "hi")), features |-> Dict({"amp"})],
     [train |-> <<2, 5, 5>>, props |-> Dict(("snr" :> "lo") @@ ("iso" :> "ok")),
      features |-> Dict({"amp", "wf"})],
     [train |-> <<>>, props |-> Dict(("iso" :> "bad")), features |-> Dict({})],
     [train |-> <<4>>, props |-> Dict(("snr" :> "hi")), features |-> Dict({"wf"})],
     [train |-> <<4>>, props |-> NoDict, features |-> Dict({"amp"})]}

Reverse(s) == [i \in 1..Len(s) |-> s[Len(s) + 1 - i]]

\* The sorting with the given units; the _unit_features entries were made in
\* the order of order, the _unit_properties entries in the order of ids.
MakeSorting(ids, prof, order) ==
    LET withProps == SelectSeq(ids, LAMBDA u : prof[u].props.has)
        withFeatures == SelectSeq(order, LAMBDA u : prof[u].features.has)
    IN  [unit_ids |-> ids,
         sampling_frequency |-> 2,
         spike_trains |-> [u \in Range(ids) |-> prof[u].train],
         unit_properties |->
            [i \in 1..Len(withProps) |->
                [unit |-> withProps[i], dict |-> prof[withProps[i]].props.dict]],
         unit_features |->
            [i \in 1..Len(withFeatures) |->
                LET u == withFeatures[i] IN
                [unit |-> u,
                 dict |-> [ft \in prof[u].features.dict |->
                            [k \in 1..Len(prof[u].train) |-> SpikeLabels[u][k]]]]]]

\* Unit ids 1..n in ascending or descending order.
UnitIdLists == UNION {{[i \in 1..n |-> i], [i \in 1..n |-> n + 1 - i]} : n \in 1..MaxUnits}

SourceSortings ==
    UNION {{MakeSorting(ids, prof, order) :
                prof \in [Range(ids) -> UnitProfiles], order \in {ids, Reverse(ids)}}
           : ids \in UnitIdLists}

-----------------------------------------------------------------------------
(* PropertySync on its own: a table with distinct row ids and one dense    *)
(* column "q"; set_dynamic_table_property is called with arbitrary         *)
(* arguments.  call records the arguments, the table before the call and   *)
(* the error raised, table is the table after it.                          *)

RowIds == 0..MaxRowId
CellValues == {"a", "b"}
PropertyNames == {"p"}
\* A behaviour makes a first call, which may create the column, and a second,
\* which then finds it.
Calls == {1, 2}

\* Tables the program builds: ids are distinct (add_unit / add_electrode), in
\* ascending or descending order; row id MaxRowId is in no table.
PropTables ==
    {[ids |-> s, colnames |-> <<"q">>,
      cols |-> ("q" :> DenseColumn([i \in 1..Len(s) |-> "c"]))] :
        s \in {[i \in 1..MaxRowId |-> i - 1], [i \in 1..MaxRowId |-> MaxRowId - i]}}

NoCall ==
    [n |-> 0, row_ids |-> <<>>, property_name |-> "", values |-> <<>>,
     index |-> IndexFalse, pre |-> [ids |-> <<>>, colnames |-> <<>>, cols |-> <<>>],
     err |-> NoError]

SetProperty(row_ids, property_name, values, index) ==
    LET r == set_dynamic_table_property(table, row_ids, property_name, values, index, NaN) IN
    /\ call.n + 1 \in Calls
    /\ table' = r.table
    /\ call' = [n |-> call.n + 1, row_ids |-> row_ids, property_name |-> property_name,
                values |-> values, index |-> index, pre |-> table, err |-> r.err]

\* index=False.  The target column is absent or dense: what table[name].data
\* is for a ragged column is pynwb's business and is left out.
SetPropertyDense ==
    \E row_ids \in SeqUpTo(RowIds, MaxArgLen), values \in SeqUpTo(CellValues, MaxArgLen),
       property_name \in PropertyNames :
        /\ HasColumn(table, property_name) => ~table.cols[property_name].ragged
        /\ SetProperty(row_ids, property_name, values, IndexFalse)
        /\ UNCHANGED <<store, handle, pc, opens, recording, sorting, rx, sx, last, hist>>

\* index=<a cumulative index list>, values the flat payload.
SetPropertyIndexed ==
    \E row_ids \in SeqUpTo(RowIds, MaxArgLen), values \in [1..MaxArgLen -> CellValues],
       property_name \in PropertyNames :
        \E idx \in {[i \in 1..Len(row_ids) |-> Min(i, Len(values))]} :
            /\ SetProperty(row_ids, property_name, values, IndexList(idx))
            /\ UNCHANGED <<store, handle, pc, opens, recording, sorting, rx, sx, last, hist>>

\* No store, no operation in progress, nothing imported yet.
InitStore ==
    /\ store = NoStore /\ handle = 0 /\ pc = "idle" /\ opens = 0
    /\ rx = FailedRecordingExtractor(NoError)
    /\ sx = FailedSortingExtractor(NoError)
    /\ last = NoLast /\ hist = NoHist

NoSource == <<>>

InitProp ==
    /\ table \in PropTables
    /\ call = NoCall
    /\ InitStore
    /\ recording = NoSource /\ sorting = NoSource

NextProp == SetPropertyDense \/ SetPropertyIndexed

SpecProp == InitProp /\ [][NextProp]_vars

-----------------------------------------------------------------------------
(* Properties of PropertySync, stated on the last call.                    *)

\* The value the call supplies for row id: values[k] where row_ids[k] = id.
Supplied(id) == call.values[ListIndex(call.row_ids, id)]

\* The call meets the preconditions of dense mode: distinct row ids, all in
\* the table, as many values as row ids.
DenseCallOk ==
    /\ call.n > 0 /\ call.index.is_false
    /\ Distinct(call.row_ids)
    /\ Range(call.row_ids) \subseteq Range(call.pre.ids)
    /\ Len(call.values) = Len(call.row_ids)

C2_DefaultFill ==
    (DenseCallOk /\ ~HasColumn(call.pre, call.property_name)) =>
        /\ call.err = NoError
        /\ HasColumn(table, call.property_name)
        /\ ~table.cols[call.property_name].ragged
        /\ Len(table.cols[call.property_name].data) = Len(table.ids)
        /\ \A i \in 1..Len(table.ids) :
            LET id == table.ids[i] IN
            get_dynamic_table_property(table, <<id>>, call.property_name) =
                IF id \in Range(call.row_ids) THEN <<Supplied(id)>> ELSE <<NaN>>

\* C2 witness: a fresh column set on a proper, non-empty subset of the rows.
C2_Witness ==
    /\ DenseCallOk /\ ~HasColumn(call.pre, call.property_name) /\ call.err = NoError
    /\ call.row_ids # <<>>
    /\ Range(call.row_ids) # Range(table.ids)
    /\ HasColumn(table, call.property_name)

\* C3: a row id outside the table fails the call with the unknown-row error; a
\* dense-mode call with all ids known and a value count other than the row-id
\* count fails with the shape-mismatch error; either failure leaves the table
\* (row ids, column set, every column) as before the call.
C3_PreconditionFailures ==
    call.n > 0 =>
        /\ (~(Range(call.row_ids) \subseteq Range(call.pre.ids))) => call.err = UnknownRowError
        /\ (/\ Range(call.row_ids) \subseteq Range(call.pre.ids)
            /\ call.index.is_false
            /\ Len(call.values) # Len(call.row_ids)) => call.err = ShapeMismatchError
        /\ call.err \in {UnknownRowError, ShapeMismatchError} => table = call.pre

\* C3 witness: a shape mismatch on a table that holds a created column, whose
\* zip(row_ids, values) is not empty.
C3_Witness ==
    /\ call.n > 0 /\ call.err = ShapeMismatchError
    /\ HasColumn(call.pre, "p")
    /\ call.row_ids # <<>> /\ call.values # <<>>

-----------------------------------------------------------------------------
(* Recordings exported to and imported from one store.                     *)

NoTable == [ids |-> <<>>, colnames |-> <<>>, cols |-> <<>>]

\* Channel properties: any source recording, exported and imported.
InitChan ==
    /\ table = NoTable /\ call = NoCall
    /\ InitStore
    /\ recording \in SourceRecordings
    /\ sorting = NoSource

NextChan ==
    \/ ExportRecordingOpen \/ ExportRecordingBody
    \/ ImportRecordingOpen \/ ImportRecordingBody

SpecChan == InitChan /\ [][NextChan]_vars

\* Epochs: a one-channel recording whose epochs are edited between exports.
InitEpoch ==
    /\ table = NoTable /\ call = NoCall
    /\ InitStore
    /\ \E fs \in SamplingFrequencies :
        recording = [channel_ids |-> <<0>>, sampling_frequency |-> fs, num_frames |-> 200,
                     epochs |-> <<>>,
                     properties |-> (0 :> ("location" :> <<Float(5), Float(7)>>))]
    /\ sorting = NoSource

NextEpoch == NextChan \/ AddEpoch

SpecEpoch == InitEpoch /\ [][NextEpoch]_vars

-----------------------------------------------------------------------------
(* Sortings exported to and imported from one store.                       *)

InitSort ==
    /\ table = NoTable /\ call = NoCall
    /\ InitStore
    /\ recording = NoSource
    /\ sorting \in SourceSortings

NextSort ==
    \/ ExportSortingOpen \/ ExportSortingBody
    \/ ImportSortingOpen \/ ImportSortingBody
    \/ GetUnitIdsOpen \/ GetUnitIdsBody
    \/ GetUnitSpikeTrainOpen \/ GetUnitSpikeTrainBody

SpecSort == InitSort /\ [][NextSort]_vars

-----------------------------------------------------------------------------
(* A session: a recording and a sorting of one unit go to the same store,  *)
(* are imported from it and read through the extractors; the caller may    *)
(* turn to another recording between operations.                           *)

\* Recordings with ascending channel ids whose channels all carry the same
\* properties: a 2-coordinate location and possibly the custom 'quality'.
SessionRecordings ==
    {r \in SourceRecordings :
        /\ r.channel_ids[1] = 0
        /\ \A ch \in Range(r.channel_ids) :
            /\ r.properties[ch] = r.properties[0]
            /\ DOMAIN r.properties[ch] \subseteq {"location", "quality"}
            /\ Len(r.properties[ch]["location"]) = 2}

SessionSortings == {s \in SourceSortings : Len(s.unit_ids) = 1}

SwapRecording ==
    /\ pc = "idle"
    /\ hist.swaps < MaxSwaps
    /\ \E r \in SessionRecordings :
        /\ r # recording
        /\ recording' = r
    /\ hist' = [hist EXCEPT !.swaps = @ + 1]
    /\ UNCHANGED <<table, call, store, handle, pc, opens, sorting, rx, sx, last>>

Init ==
    /\ table = NoTable /\ call = NoCall
    /\ InitStore
    /\ recording \in SessionRecordings
    /\ sorting \in SessionSortings

Next ==
    \/ ExportRecordingOpen \/ ExportRecordingBody
    \/ ImportRecordingOpen \/ ImportRecordingBody
    \/ GetTracesOpen \/ GetTracesBody
    \/ ExportSortingOpen \/ ExportSortingBody
    \/ ImportSortingOpen \/ ImportSortingBody
    \/ GetUnitIdsOpen \/ GetUnitIdsBody
    \/ GetUnitSpikeTrainOpen \/ GetUnitSpikeTrainBody
    \/ SwapRecording

Spec == Init /\ [][Next]_vars

-----------------------------------------------------------------------------
(* Ragged columns: either set_dynamic_table_property is called on a table, *)
(* or a sorting is exported to the store again and again.                  *)

InitRagged ==
    /\ InitStore
    /\ recording = NoSource
    /\ call = NoCall
    /\ \/ table \in PropTables /\ sorting = NoSource
       \/ table = NoTable /\ sorting \in SourceSortings

\* Any first call, then an indexed call.
PropertyCall ==
    /\ sorting = NoSource
    /\ SetPropertyIndexed \/ (call.n = 0 /\ SetPropertyDense)

SortingExport == sorting # NoSource /\ (ExportSortingOpen \/ ExportSortingBody)

NextRagged == PropertyCall \/ SortingExport

SpecRagged == InitRagged /\ [][NextRagged]_vars

-----------------------------------------------------------------------------
(* Repeated exports of a recording whose channels change group in between. *)

\* Recordings whose channels carry a 2-coordinate location and possibly a
\* gain, with or without groups.
GroupRecordings ==
    {r \in SourceRecordings :
        \A ch \in Range(r.channel_ids) :
            /\ DOMAIN r.properties[ch] \subseteq {"location", "gain", "group"}
            /\ Len(r.properties[ch]["location"]) = 2
            /\ "gain" \in DOMAIN r.properties[ch] => r.properties[ch]["gain"] = Float(2)}

InitGroup ==
    /\ table = NoTable /\ call = NoCall
    /\ InitStore
    /\ recording \in GroupRecordings
    /\ sorting = NoSource

NextGroup == NextChan \/ RegroupChannel

SpecGroup == InitGroup /\ [][NextGroup]_vars

-----------------------------------------------------------------------------
(* Repeated exports of recordings with the same or other channel sets.     *)

\* Recordings without groups whose channels all carry the same properties:
\* a 2-coordinate location and possibly the custom 'quality'.
RowRecordings ==
    {r \in SourceRecordings :
        \A ch \in Range(r.channel_ids) :
            /\ r.properties[ch] = r.properties[r.channel_ids[1]]
            /\ DOMAIN r.properties[ch] \subseteq {"location", "quality"}
            /\ Len(r.properties[ch]["location"]) = 2}

\* The caller turns to another recording.
OtherRecording ==
    /\ pc = "idle"
    /\ hist.swaps < MaxSwaps
    /\ \E r \in RowRecordings :
        /\ r.channel_ids # recording.channel_ids
        /\ recording' = r
    /\ hist' = [hist EXCEPT !.swaps = @ + 1]
    /\ UNCHANGED <<table, call, store, handle, pc, opens, sorting, rx, sx, last>>

InitRows ==
    /\ table = NoTable /\ call = NoCall
    /\ InitStore
    /\ recording \in RowRecordings
    /\ sorting = NoSource

NextRows == NextChan \/ OtherRecording

SpecRows == InitRows /\ [][NextRows]_vars

-----------------------------------------------------------------------------
(* Imports from a store prepared elsewhere: one channel, one unit and      *)
(* zero, one or two series in the acquisition.                             *)

PreparedRecording == CHOOSE r \in SessionRecordings : Len(r.channel_ids) = 1
PreparedSorting == CHOOSE s \in SessionSortings : s.unit_properties = <<>>

SeriesNameLists ==
    {<<>>, <<"ElectricalSeries">>, <<"raw">>, <<"ElectricalSeries", "lfp">>, <<"raw", "lfp">>}

SeriesRates == <<2, 4>>

\* The file write_recording and write_sorting make of the prepared sources,
\* with the acquisition holding series of the given names.
PreparedFile(names) ==
    LET f == write_sorting(PreparedSorting,
                           write_recording(PreparedRecording, NewNWBFile).nwbfile).nwbfile
    IN  [f EXCEPT !.acquisition =
            [i \in 1..Len(names) |->
                [f.acquisition[1] EXCEPT !.name = names[i], !.rate = SeriesRates[i]]]]

InitSeries ==
    /\ table = NoTable /\ call = NoCall
    /\ handle = 0 /\ pc = "idle" /\ opens = 0
    /\ rx = FailedRecordingExtractor(NoError)
    /\ sx = FailedSortingExtractor(NoError)
    /\ last = NoLast /\ hist = NoHist
    /\ recording = PreparedRecording
    /\ sorting = PreparedSorting
    /\ \E names \in SeriesNameLists : store = [exists |-> TRUE, nwbfile |-> PreparedFile(names)]

NextSeries ==
    \/ ImportRecordingOpen \/ ImportRecordingBody
    \/ ImportSortingOpen \/ ImportSortingBody

SpecSeries == InitSeries /\ [][NextSeries]_vars

-----------------------------------------------------------------------------
(* Properties of the recording export and import.                          *)

Epochs == store.nwbfile.epochs
UpsertedTags == {hist.upserts[i].name : i \in 1..Len(hist.upserts)}
FirstUpsert(tag) ==
    CHOOSE i \in 1..Len(hist.upserts) :
        hist.upserts[i].name = tag /\ \A j \in 1..(i-1) : hist.upserts[j].name # tag
LatestUpsert(tag) ==
    hist.upserts[CHOOSE i \in 1..Len(hist.upserts) :
        hist.upserts[i].name = tag /\ \A j \in (i+1)..Len(hist.upserts) : hist.upserts[j].name # tag]
\* The tag first upserted as the k-th distinct tag.
TagOfRank(k) ==
    CHOOSE tag \in UpsertedTags :
        Cardinality({u \in UpsertedTags : FirstUpsert(u) < FirstUpsert(tag)}) = k - 1

\* C4: after any sequence of epoch upserts the persisted epoch table has one
\* row per distinct upserted tag, in the order the tags were first upserted, and
\* the row's start and stop time are start_frame / fs and end_frame / fs of the
\* latest upsert of its tag: an upsert of a tag already there adds no row and
\* leaves the other rows alone.
C4_EpochUpsert ==
    /\ Len(Epochs.tags) = Cardinality(UpsertedTags)
    /\ Len(Epochs.start_time) = Len(Epochs.tags)
    /\ Len(Epochs.stop_time) = Len(Epochs.tags)
    /\ \A k \in 1..Len(Epochs.tags) :
        LET u == LatestUpsert(TagOfRank(k)) IN
        /\ Epochs.tags[k] = <<u.name>>
        /\ Epochs.start_time[k] = Rat(u.start_frame, u.fs)
        /\ Epochs.stop_time[k] = Rat(u.end_frame, u.fs)

\* C4 witness: two tags are persisted and the one upserted first has been
\* upserted again with other bounds, by a later export.
C4_Witness ==
    /\ Len(Epochs.tags) = 2
    /\ \E i, j \in 1..Len(hist.upserts) :
        /\ i = 1 /\ i < j
        /\ hist.upserts[i].name = hist.upserts[j].name
        /\ hist.upserts[i].start_frame # hist.upserts[j].start_frame
        /\ Epochs.start_time[1] = Rat(hist.upserts[j].start_frame, hist.upserts[j].fs)

\* The source as it was handed to the export that created the store, and the
\* properties it gave each channel.
Src == hist.first
P(ch) == Src.properties[ch]
\* The import of a store written by exactly one export.
FreshRoundTrip == rx.ok /\ hist.exports = 1 /\ last.op = "NwbRecordingExtractor"
Imported(ch) == rx.channel_properties[ch]

StructuralNames == {"x", "y", "z", "imp", "filtering", "rel_x", "rel_y"}
AllNames == UNION {DOMAIN P(ch) : ch \in Range(Src.channel_ids)}

GroupRecords == store.nwbfile.electrode_groups
GroupRecordNames == [i \in 1..Len(GroupRecords) |-> GroupRecords[i].name]
IsPrefix(s, t) == Len(s) <= Len(t) /\ \A i \in 1..Len(s) : s[i] = t[i]
ExportDone == last.op = "write_recording" /\ last.err = "none" /\ pc = "idle"

\* C8: after any number of exports there is exactly one group record per
\* distinct group value exported; an export of a channel set already exported
\* creates no group record; when no channel defines 'group' every channel is
\* put in group 0 and, as long as nothing else is exported, the one record is
\* '0'; and an export neither removes nor renames a group record.
C8_GroupIdempotence ==
    /\ Distinct(GroupRecordNames)
    /\ Range(GroupRecordNames) = {Digits[g + 1] : g \in hist.groups}
    /\ IsPrefix(last.pre.nwbfile.electrode_groups, GroupRecords)
    /\ (ExportDone /\ hist.exports >= 1) =>
        /\ \A ch \in Range(recording.channel_ids) :
              /\ "group" \in DOMAIN recording.properties[ch]
              /\ recording.properties[ch]["group"] \in hist.groups
        /\ (hist.exports = 1 /\ \A ch \in Range(Src.channel_ids) : "group" \notin DOMAIN P(ch)) =>
              /\ GroupRecordNames = <<"0">>
              /\ \A ch \in Range(recording.channel_ids) : recording.properties[ch]["group"] = 0
    /\ (ExportDone /\ last.pre.exists /\ hist.groups = last.pre_groups) =>
          GroupRecords = last.pre.nwbfile.electrode_groups

\* C8 witness: a channel set with two group values has been exported twice.
C8_Witness ==
    /\ ExportDone /\ hist.exports = 2
    /\ Len(GroupRecords) = 2

Series == store.nwbfile.acquisition[1]
\* The gain of the i-th exported channel, 1 without a 'gain' property.
SrcGain(i) ==
    IF "gain" \in DOMAIN P(Src.channel_ids[i]) THEN P(Src.channel_ids[i])["gain"] ELSE <<1, 1>>
PerMillion(g) == Rat(g[1], g[2] * 1000000)
NumSrcChannels == Len(Src.channel_ids)

\* C9: the series the export creates carries g / 1e6 as its one multiplier and
\* no per-channel array when all channels have the gain g (1 for a channel
\* without 'gain'), and otherwise a per-channel array with gain_i / 1e6 for the
\* i-th channel; the import gives every channel its exported gain.
C9_GainCollapse ==
    store.exists =>
        /\ Len(store.nwbfile.acquisition) = 1
        /\ IF \A i \in 1..NumSrcChannels : SrcGain(i) = SrcGain(1)
           THEN /\ Series.conversion = PerMillion(SrcGain(1))
                /\ Series.channel_conversion.is_none
           ELSE /\ ~Series.channel_conversion.is_none
                /\ Len(Series.channel_conversion.data) = NumSrcChannels
                /\ \A i \in 1..NumSrcChannels :
                      Series.channel_conversion.data[i] = PerMillion(SrcGain(i))
        /\ (rx.ok /\ last.op = "NwbRecordingExtractor") =>
              \A i \in 1..NumSrcChannels :
                  rx.channel_properties[Src.channel_ids[i]]["gain"] = SrcGain(i)

\* C9 witness: channels with different gains, one of them without the
\* property, exported and imported.
C9_Witness ==
    /\ rx.ok /\ last.op = "NwbRecordingExtractor"
    /\ ~Series.channel_conversion.is_none
    /\ \E i \in 1..NumSrcChannels : "gain" \notin DOMAIN P(Src.channel_ids[i])

-----------------------------------------------------------------------------
(* Properties of the sorting export and import.                            *)

\* The export that has just finished made the units table.
FreshSortingExport ==
    /\ pc = "idle"
    /\ last.op = "write_sorting" /\ last.err = NoError
    /\ last.pre.nwbfile.units.is_none

\* The ragged columns other than spike_times.
FeatureColumns(t) == {name \in Range(t.colnames) : name # "spike_times" /\ t.cols[name].ragged}
PropertyColumns(t) == {name \in Range(t.colnames) : ~t.cols[name].ragged}

SpikeCount(u) == Len(sorting.spike_trains[u])

RECURSIVE Sum(_)
Sum(counts) == IF counts = <<>> THEN 0 ELSE Head(counts) + Sum(Tail(counts))

\* The values of feature ft the source holds for unit u, NaN per spike when
\* the unit has no such feature or no entry.
OwnValues(u, ft) ==
    LET keys == DictKeys(sorting.unit_features) IN
    IF u \in Range(keys) /\ ft \in DOMAIN sorting.unit_features[ListIndex(keys, u)].dict
    THEN sorting.unit_features[ListIndex(keys, u)].dict[ft]
    ELSE Repeat(NaN, SpikeCount(u))

\* C6: after write_sorting has written a ragged feature column, the
\* cumulative index has one entry per unit row and is non-decreasing, its
\* last entry is the length of the flat payload, which is the total spike
\* count, and every unit's slice has the unit's spike count as length and
\* holds the unit's own values, or NaN when the unit lacks the feature.
C6_RaggedAlignment ==
    FreshSortingExport =>
        LET t == store.nwbfile.units IN
        \A ft \in FeatureColumns(t) :
            LET c == t.cols[ft] IN
            /\ Len(c.index) = Len(t.ids)
            /\ \A i \in 2..Len(c.index) : c.index[i-1] <= c.index[i]
            /\ c.index[Len(c.index)] = Len(c.data)
            /\ Len(c.data) = Sum([i \in 1..Len(t.ids) |-> SpikeCount(t.ids[i])])
            /\ \A i \in 1..Len(t.ids) :
                /\ Len(Cell(t, ft, i)) = SpikeCount(t.ids[i])
                /\ Cell(t, ft, i) = OwnValues(t.ids[i], ft)

\* The import that has just finished built an extractor.
SortingImported ==
    /\ pc = "idle"
    /\ last.op = "NwbSortingExtractor" /\ last.err = NoError

\* The extractor's dict d has column item for the unit, with this value.
Holds(d, id, item, value) ==
    /\ id \in DOMAIN d
    /\ item \in DOMAIN d[id]
    /\ d[id][item] = value

Has(d, id, item) == id \in DOMAIN d /\ item \in DOMAIN d[id]

\* C7: after the import of a sorting every unit's property dict has every
\* dense column and every unit's feature dict has every ragged column other
\* than spike_times, each with the value of the unit's row, and no column is
\* in both dicts.
C7_ImportEveryColumn ==
    SortingImported =>
        LET t == store.nwbfile.units IN
        \A i \in 1..Len(t.ids) :
            /\ \A item \in PropertyColumns(t) :
                /\ Holds(sx.unit_properties, t.ids[i], item, Cell(t, item, i))
                /\ ~Has(sx.unit_features, t.ids[i], item)
            /\ \A item \in FeatureColumns(t) :
                /\ Holds(sx.unit_features, t.ids[i], item, Cell(t, item, i))
                /\ ~Has(sx.unit_properties, t.ids[i], item)

-----------------------------------------------------------------------------
(* The store handle.                                                       *)

\* C10: an operation opens the store at most once, and once an operation
\* has returned, normally or with an error, no handle is open.
C10_HandleRelease ==
    /\ opens <= 1
    /\ handle <= 1
    /\ pc = "idle" => handle = 0
    /\ pc # "idle" => handle = 1 /\ opens = 1

\* An export has failed part way and returned.
C10_Witness ==
    /\ pc = "idle"
    /\ last.op \in {"write_recording", "write_sorting"}
    /\ last.err # NoError
    /\ handle = 0

-----------------------------------------------------------------------------
(* Series resolution on import.                                            *)

RecordingImportDone == pc = "idle" /\ last.op = "NwbRecordingExtractor"
SortingImportDone == pc = "idle" /\ last.op = "NwbSortingExtractor"

\* The import of a recording was given no series name: the argument was
\* left out or passed as None.
NoSeriesNameGiven == ~last.args.given \/ last.args.electrical_series_name.is_none
ExplicitNone == last.args.given /\ last.args.electrical_series_name.is_none

\* What the import of a recording does when it resolves the series itself.
RecordingResolution ==
    LET a == store.nwbfile.acquisition IN
    /\ Len(a) > 1 => last.err = AmbiguousSeriesError /\ ~rx.ok /\ rx.channel_ids = <<>>
    /\ Len(a) = 0 => last.err = NoSeriesError /\ ~rx.ok /\ rx.channel_ids = <<>>
    /\ Len(a) = 1 => /\ last.err = NoError /\ rx.ok
                     /\ rx.electrical_series_name = a[1].name
                     /\ rx.sampling_frequency = a[1].rate

\* What the import of a sorting does when it resolves the series itself.
SortingResolution ==
    LET a == store.nwbfile.acquisition IN
    /\ Len(a) > 1 => last.err = AmbiguousSeriesException /\ ~sx.ok /\ sx.unit_properties = <<>>
    /\ Len(a) = 0 => last.err = NoSeriesException /\ ~sx.ok /\ sx.unit_properties = <<>>
    /\ Len(a) = 1 => last.err = NoError /\ sx.ok /\ sx.sampling_frequency = a[1].rate

\* C11: an import given no series name (recording) or no sampling frequency
\* (sorting) fails with the ambiguous-series error on a store with more
\* than one series, fails with the no-series error on a store with none,
\* and resolves to the series of a store with exactly one; a failure
\* produces no channel or unit records.
C11_SeriesResolution ==
    /\ RecordingImportDone /\ NoSeriesNameGiven => RecordingResolution
    /\ SortingImportDone /\ last.args.sampling_frequency = NoFrequency => SortingResolution

\* The same with the series name passed as None.
C11_ExplicitNoneResolution ==
    /\ RecordingImportDone /\ ExplicitNone => RecordingResolution
    /\ SortingImportDone /\ last.args.sampling_frequency = NoFrequency => SortingResolution

-----------------------------------------------------------------------------
(* Group membership of the persisted electrode rows.                       *)

Electrodes == store.nwbfile.electrodes

\* The row of channel id in the electrodes table t.
RowOf(t, id) == ListIndex(t.ids, id)

\* No column 'gain', and the 'group' column still holds the group records
\* the rows were inserted with.
StructuralGroupColumn(t) ==
    /\ "gain" \notin Range(t.colnames)
    /\ \A i \in 1..Len(t.ids) :
        /\ t.cols["group"].data[i] \in Range(store.nwbfile.electrode_groups)
        /\ t.cols["group"].data[i].name = t.cols["group_name"].data[i]

\* Every row of the table keeps its group reference and group name over
\* the step.
GroupsKept ==
    Electrodes.is_none \/
        \A i \in 1..Len(Electrodes.ids) :
            LET id == Electrodes.ids[i] IN
            /\ id \in Range(Electrodes'.ids)
            /\ Electrodes'.cols["group"].data[RowOf(Electrodes', id)]
                    = Electrodes.cols["group"].data[i]
            /\ Electrodes'.cols["group_name"].data[RowOf(Electrodes', id)]
                    = Electrodes.cols["group_name"].data[i]

\* C12: once an export has inserted a channel's electrode row, no later
\* step changes the row's group reference or group name, whatever the
\* source's 'group' property has become, and the property update never
\* writes 'group' or 'gain' as a column of its own.
C12_GroupImmutable ==
    [][GroupsKept /\ (Electrodes'.is_none \/ StructuralGroupColumn(Electrodes)')]_vars

\* An export has finished for a channel with a gain whose 'group' in the
\* source is not the group its row was inserted with.
C12_Witness ==
    /\ pc = "idle"
    /\ last.op = "write_recording" /\ last.err = NoError
    /\ ~last.pre.nwbfile.electrodes.is_none
    /\ \E i \in 1..Len(Electrodes.ids) :
        LET ch == Electrodes.ids[i] IN
        /\ ch \in Range(recording.channel_ids)
        /\ "gain" \in DOMAIN recording.properties[ch]
        /\ str(recording.properties[ch]["group"]) # Electrodes.cols["group_name"].data[i]

-----------------------------------------------------------------------------
(* Indexed calls of set_dynamic_table_property.                            *)

\* The last call was indexed and its row ids are all in the table.
IndexedCallOk ==
    /\ call.n > 0 /\ ~call.index.is_false
    /\ Range(call.row_ids) \subseteq Range(call.pre.ids)

\* The sorting has a spike feature whose column the units table t holds.
HoldsFeatureOf(t, sorting_) ==
    /\ ~t.is_none
    /\ \E ft \in find_all_unit_property_names(sorting_.unit_properties,
                                               sorting_.unit_features).features_set :
        HasColumn(t, ft)

\* C13: an indexed call on a column that exists fails with
\* NotImplementedError and leaves the table as it was, so the export of a
\* sorting with a spike feature to a store that holds the feature's column
\* fails with NotImplementedError and leaves the store as it was; an
\* indexed call on an absent column creates a ragged column whose flat
\* values are the supplied values and whose index is the supplied index.
C13_IndexedColumn ==
    /\ IndexedCallOk /\ HasColumn(call.pre, call.property_name) =>
            call.err = NotImplementedError /\ table = call.pre
    /\ IndexedCallOk /\ ~HasColumn(call.pre, call.property_name) =>
            /\ call.err = NoError
            /\ table.ids = call.pre.ids
            /\ table.colnames = Append(call.pre.colnames, call.property_name)
            /\ \A c \in DOMAIN call.pre.cols : table.cols[c] = call.pre.cols[c]
            /\ table.cols[call.property_name].ragged
            /\ table.cols[call.property_name].data = call.values
            /\ table.cols[call.property_name].index = call.index.data
    /\ (/\ pc = "idle" /\ last.op = "write_sorting"
        /\ HoldsFeatureOf(last.pre.nwbfile.units, sorting)) =>
            last.err = NotImplementedError /\ store = last.pre

\* A second export of a sorting with a spike feature has failed.
C13_Witness ==
    /\ pc = "idle" /\ last.op = "write_sorting"
    /\ HoldsFeatureOf(last.pre.nwbfile.units, sorting)
    /\ last.err = NotImplementedError
    /\ HoldsFeatureOf(store.nwbfile.units, sorting)

-----------------------------------------------------------------------------
(* The row ids of the persisted electrodes table.                          *)

\* The rows of t whose id is ch.
RowsOf(t, ch) == {i \in 1..Len(t.ids) : t.ids[i] = ch}

\* The step is an export that succeeds.
ExportSucceeds == pc = "write_recording" /\ last'.err = NoError

\* Over the step the row ids stay pairwise distinct, the rows there keep
\* their position and id, every row added is for a channel of the source
\* that had none, and a successful export leaves each channel of the source
\* with exactly one row.
RowsStep ==
    /\ Distinct(Electrodes'.ids)
    /\ IsPrefix(Electrodes.ids, Electrodes'.ids)
    /\ \A i \in (Len(Electrodes.ids) + 1)..Len(Electrodes'.ids) :
        /\ Electrodes'.ids[i] \in Range(recording.channel_ids)
        /\ Electrodes'.ids[i] \notin Range(Electrodes.ids)
    /\ ExportSucceeds =>
        \A ch \in Range(recording.channel_ids) : Cardinality(RowsOf(Electrodes', ch)) = 1

-----------------------------------------------------------------------------
(* Spike trains read back through the imported sorting.                    *)

\* A spike train has been read through the extractor.
SpikeTrainRead == pc = "idle" /\ last.op = "get_unit_spike_train" /\ last.err = NoError

\* The frames of the source's unit that lie in the window of the call.
ExportedFrames ==
    SelectSeq(sorting.spike_trains[last.args.unit_id],
              LAMBDA f : InWindowFromStart(f, last.args.start_frame, last.args.end_frame))

\* C15: for a sorting exported to a fresh store and imported with the
\* same sampling frequency, the spike train read back for a unit without
\* bounds is the exported train, frame 0 included, and with bounds it is
\* the exported frames f with start_frame <= f < end_frame.
C15_SpikeTrainRoundTrip ==
    (SpikeTrainRead /\ sx.sampling_frequency = sorting.sampling_frequency) =>
        last.result = ExportedFrames

====
